---- MODULE Spec2Model ----
(***************************************************************************)
(* Wallet challenge-response authentication of the PsyFi backend:          *)
(* the auth router (nonce, connect, refresh, disconnect), the Redis        *)
(* service it caches in and the Postgres tables it persists to.            *)
(* Time is the server clock in milliseconds (Date.now()).                  *)
(***************************************************************************)
EXTENDS Integers, FiniteSets, Sequences, TLC

\* ------------------------------------------------------------------ bounds

\* Date.now() when the run starts; any real clock is far past five minutes.
StartTime == 1000000
\* Number of sessions a run creates; the replay runs create one more.
MaxSessions == 1
\* Number of nonces generateNonce hands out in one run.
MaxNonces == 1
\* Highest count a rate-limit counter is driven to.
MaxHits == 3

\* -------------------------------------------------------- program constants

fiveMinutes == 5 * 60 * 1000
NonceTtl == 300
AccessTtl == 60 * 60
RefreshTtl == 7 * 24 * 60 * 60
SessionTtl == 7 * 24 * 60 * 60
SessionTtlMs == 7 * 24 * 60 * 60 * 1000
\* incrementRateLimit's default window, in seconds.
Window == 3600


\* ------------------------------------------------------------- value spaces

Null == "null"
NoRow == [absent |-> TRUE]
NoEntry == [absent |-> TRUE]
Throws == "throws"

\* Wallets, named by the lower-case form of their address.
Wallets == {"0xab", "0xcd"}
\* Address strings a client submits; all match /^0x[a-fA-F0-9]{40}$/.
Addrs == {"0xab", "0xAb", "0xcd"}
\* A string that does not match the address pattern.
BadAddr == "zz"
Usernames == {"alice"}
Emails == {"a@x"}
Procs == {1, 2}

\* The EIP-55 mixed-case form ethers returns for a recovered signer.
getAddress(w) == IF w = "0xab" THEN "0xAb" ELSE IF w = "0xcd" THEN "0xCd" ELSE w

toLowerCase(s) == IF s = "0xAb" THEN "0xab" ELSE IF s = "0xCd" THEN "0xcd" ELSE s

\* Every string passes.
addressPatternAny(s) == TRUE

addressPattern(s) == s \in {"0xab", "0xAb", "0xcd", "0xCd"}

\* ---------------------------------------------------------------- variables

VARIABLES
    now,            \* Date.now() / CURRENT_TIMESTAMP, in ms
    users,          \* table users, keyed by wallet_address (UNIQUE)
    userSeq,        \* users.id SERIAL sequence
    sessions,       \* table api_sessions, keyed by session_id (UNIQUE)
    nonceCache,     \* Redis keys nonce:<walletAddress>
    sessionCache,   \* Redis keys session:<sessionId>
    conn,           \* each /connect request in flight, with its position
    nextNonce,      \* generateNonce: the next fresh nonce
    nextSid,        \* generateSessionId: the next fresh session id
    issued,         \* challenge messages the nonce endpoint has returned
    minted,         \* tokens returned to clients, and by which response
    server,         \* startServer: its position, the instances initialized
    rateLimit,      \* the Redis key of one rate-limit counter
    limiter,        \* each incrementRateLimit call in flight, with its position
    resp            \* what the step just taken did: the response it sent

vars == <<now, users, userSeq, sessions, nonceCache, sessionCache, conn,
          nextNonce, nextSid, issued, minted, server, rateLimit, limiter, resp>>

Sids == 1 .. (MaxSessions + 1)
\* A session id no connect ever generated.
UnknownSid == MaxSessions + 2

Idle == [pc |-> "idle"]

\* A key Redis holds without an expiry.
NoExpiry == -1

\* The service instances server.ts constructs and initializes, and the ones
\* the auth router constructs for itself.
ServerInstances == {"server.db", "server.redis", "server.arweave"}
RouteInstances == {"auth.db", "auth.redis"}

\* startServer has run to server.listen.
Listening == [pc |-> "listening", initialized |-> ServerInstances]

\* The process has loaded its modules; startServer has not begun.
Loaded == [pc |-> "start", initialized |-> {}]

\* The stores and the requests as the process finds them.
Constructed ==
    /\ rateLimit = NoEntry
    /\ limiter = [p \in Procs |-> Idle]
    /\ now = StartTime
    /\ users = [a \in Addrs |-> NoRow]
    /\ userSeq = 1
    /\ sessions = [s \in Sids |-> NoRow]
    /\ nonceCache = [a \in Addrs |-> NoEntry]
    /\ sessionCache = [s \in Sids |-> NoEntry]
    /\ conn = [p \in Procs |-> Idle]
    /\ nextNonce = 1
    /\ nextSid = 1
    /\ issued = {}
    /\ minted = {}
    /\ resp = [op |-> "start"]

\* The server is up: startServer has initialized its services and listens.
Init == server = Listening /\ Constructed

\* The process has just been started.
InitBoot == server = Loaded /\ Constructed

\* ------------------------------------------------------------ RedisService

\* RedisService.set with a ttl: SETEX, or the error caught and false returned.
RedisSet(cache, key, value, ttl, up) ==
    IF up
    THEN [cache EXCEPT ![key] = [value |-> value, expireAt |-> now + ttl * 1000]]
    ELSE cache

\* RedisService.get: the value, or null on a miss and on a caught error.
RedisGet(cache, key, up) ==
    IF up /\ cache[key] # NoEntry THEN [value |-> cache[key].value] ELSE NoEntry

\* RedisService.del: DEL, or the error caught and false returned.
RedisDel(cache, key, up) ==
    IF up THEN [cache EXCEPT ![key] = NoEntry] ELSE cache

\* Redis drops a key once its ttl has run out.
Evict(cache, t) ==
    [k \in DOMAIN cache |->
        IF cache[k] # NoEntry /\ cache[k].expireAt <= t THEN NoEntry ELSE cache[k]]

\* ----------------------------------------------------------- auth utilities

\* The text the nonce endpoint builds: wallet, nonce and timestamp lines.
ChallengeMessage(walletAddress, nonce, timestamp) ==
    [wallet |-> walletAddress, nonce |-> nonce, timestamp |-> timestamp]

\* A message with no "Timestamp: <digits>" line.
NoTimestamp == -1

\* The pattern never matches: every message reads as timestamp 0.
extractTimestampNoMatch(message) == 0

extractTimestampFromMessage(message) ==
    IF message.timestamp = NoTimestamp THEN 0 ELSE message.timestamp

\* A signature: the wallet whose key made it and whether it is over the
\* submitted message; or bytes that are no signature at all.
Malformed == [signer |-> "none", over |-> "malformed"]

\* ethers.verifyMessage: the signer when the signature is over this message,
\* some unrelated address when it is over another text; throws on bad bytes.
verifyMessage(message, signature) ==
    IF signature = Malformed THEN Throws
    ELSE IF signature.over = "this" THEN getAddress(signature.signer)
    ELSE "0xEe"

\* A string that is no token the server signed.
BadToken == [payload |-> Null, iat |-> 0, exp |-> 0, bad |-> TRUE]

\* jwt.sign(payload, secret, {expiresIn}): iat and exp are in seconds.
jwtSign(payload, expiresIn) ==
    [payload |-> payload, iat |-> now \div 1000,
     exp |-> (now \div 1000) + expiresIn]

\* jwt.verify: the payload, or the name of the error thrown.
jwtVerify(token) ==
    IF token = BadToken THEN [error |-> "JsonWebTokenError"]
    ELSE IF now \div 1000 >= token.exp THEN [error |-> "TokenExpiredError"]
    ELSE [decoded |-> token.payload]

\* --------------------------------------------------------- DatabaseService

\* An insert that replaces the row of a known address by a new one.
createUserReplace(table, walletAddress, username, email) ==
    [table EXCEPT ![walletAddress] =
        [id |-> userSeq, wallet_address |-> walletAddress,
         username |-> username, email |-> email, preferences |-> "{}"]]

\* An upsert that stores the fields as given, omitted or not.
createUserOverwrite(table, walletAddress, username, email) ==
    IF table[walletAddress] = NoRow
    THEN [table EXCEPT ![walletAddress] =
            [id |-> userSeq, wallet_address |-> walletAddress,
             username |-> username, email |-> email, preferences |-> "{}"]]
    ELSE [table EXCEPT ![walletAddress] =
            [@ EXCEPT !.username = username, !.email = email]]

\* DatabaseService.createUser: INSERT ... ON CONFLICT (wallet_address)
\* DO UPDATE with COALESCE on username and email.
createUser(table, walletAddress, username, email) ==
    IF table[walletAddress] = NoRow
    THEN [table EXCEPT ![walletAddress] =
            [id |-> userSeq, wallet_address |-> walletAddress,
             username |-> username, email |-> email, preferences |-> "{}"]]
    ELSE [table EXCEPT ![walletAddress] =
            [@ EXCEPT !.username = IF username # Null THEN username ELSE @,
                      !.email = IF email # Null THEN email ELSE @]]

\* The user only while one of its sessions has a row.
getUserByWalletInSession(walletAddress) ==
    IF /\ walletAddress \in DOMAIN users
       /\ \E s \in DOMAIN sessions :
            sessions[s] # NoRow /\ sessions[s].wallet_address = walletAddress
    THEN users[walletAddress]
    ELSE NoRow

\* DatabaseService.getUserByWallet
getUserByWallet(walletAddress) ==
    IF walletAddress \in DOMAIN users THEN users[walletAddress] ELSE NoRow

\* At most one session row per wallet: a second insert is dropped.
createSessionOnce(table, sessionId, userId, walletAddress, expiresAt) ==
    IF \E s \in DOMAIN table :
            table[s] # NoRow /\ table[s].wallet_address = walletAddress
    THEN table
    ELSE [table EXCEPT ![sessionId] =
            [user_id |-> userId, wallet_address |-> walletAddress,
             expires_at |-> expiresAt]]

\* DatabaseService.createSession
createSession(table, sessionId, userId, walletAddress, expiresAt) ==
    [table EXCEPT ![sessionId] =
        [user_id |-> userId, wallet_address |-> walletAddress,
         expires_at |-> expiresAt]]

\* DatabaseService.getSession: the row, joined to its user, unless expired.
getSession(sessionId) ==
    IF /\ sessionId \in DOMAIN sessions
       /\ sessions[sessionId] # NoRow
       /\ sessions[sessionId].expires_at > now
    THEN sessions[sessionId]
    ELSE NoRow

\* DatabaseService.deleteSession
deleteSession(table, sessionId) ==
    IF sessionId \in DOMAIN table THEN [table EXCEPT ![sessionId] = NoRow] ELSE table

\* ---------------------------------------------------------- GET /nonce/:addr

Nonce(walletAddress, redisUp) ==
    IF ~addressPattern(walletAddress)
    THEN /\ resp' = [op |-> "nonce", walletAddress |-> walletAddress,
                     code |-> "INVALID_WALLET_ADDRESS"]
         /\ UNCHANGED <<server, rateLimit, limiter, now, users, userSeq, sessions, nonceCache,
                        sessionCache, conn, nextNonce, nextSid, issued, minted>>
    ELSE /\ LET nonce == nextNonce
                timestamp == now
                message == ChallengeMessage(walletAddress, nonce, timestamp)
            IN /\ nonceCache' = RedisSet(nonceCache, walletAddress, nonce, NonceTtl, redisUp)
               /\ issued' = issued \cup {message}
               /\ resp' = [op |-> "nonce", walletAddress |-> walletAddress,
                           code |-> "OK", message |-> message, nonce |-> nonce,
                           timestamp |-> timestamp, stored |-> redisUp]
         /\ nextNonce' = nextNonce + 1
         /\ UNCHANGED <<server, rateLimit, limiter, now, users, userSeq, sessions, sessionCache,
                        conn, nextSid, minted>>

\* -------------------------------------------------------------- POST /connect

ConnectReject(walletAddress, signature, message, code) ==
    [op |-> "connect", walletAddress |-> walletAddress, signature |-> signature,
     message |-> message, code |-> code, storage |-> FALSE, receivedAt |-> now,
     before |-> [users |-> users, sessions |-> sessions,
                 sessionCache |-> sessionCache]]

\* The claimed address compared with itself.
signatureMatchesSelf(recoveredAddress, walletAddress) ==
    toLowerCase(walletAddress) = toLowerCase(walletAddress)

\* Line 37: the recovered signer is the claimed address, letter case aside.
signatureMatches(recoveredAddress, walletAddress) ==
    toLowerCase(recoveredAddress) = toLowerCase(walletAddress)

\* The subtraction the other way round.
messageExpiredSwapped(messageTimestamp) ==
    messageTimestamp - now > fiveMinutes

\* Line 49: the message is older than five minutes.
messageExpired(messageTimestamp) ==
    now - messageTimestamp > fiveMinutes

\* Lines 32-54: recover the signer, compare, check the message's age; then
\* the request waits on db.createUser. The request keeps what the stores
\* held when it arrived; no step reads it.
ConnectVerify(p, walletAddress, signature, message, username, email) ==
    /\ conn[p].pc = "idle"
    /\ LET recoveredAddress == verifyMessage(message, signature)
           messageTimestamp == extractTimestampFromMessage(message)
       IN IF recoveredAddress = Throws
          THEN /\ resp' = ConnectReject(walletAddress, signature, message, "INTERNAL_ERROR")
               /\ UNCHANGED conn
          ELSE IF ~signatureMatches(recoveredAddress, walletAddress)
          THEN /\ resp' = ConnectReject(walletAddress, signature, message, "INVALID_SIGNATURE")
               /\ UNCHANGED conn
          ELSE IF messageExpired(messageTimestamp)
          THEN /\ resp' = ConnectReject(walletAddress, signature, message, "MESSAGE_EXPIRED")
               /\ UNCHANGED conn
          ELSE /\ nextSid \in Sids
               /\ conn' = [conn EXCEPT ![p] =
                    [pc |-> "createUser", walletAddress |-> walletAddress,
                     signature |-> signature, message |-> message,
                     username |-> username, email |-> email, receivedAt |-> now,
                     before |-> [users |-> users, sessions |-> sessions,
                                 sessionCache |-> sessionCache]]]
               /\ resp' = [op |-> "connect.verified", p |-> p]
    /\ UNCHANGED <<server, rateLimit, limiter, now, users, userSeq, sessions, nonceCache, sessionCache,
                   nextNonce, nextSid, issued, minted>>

\* The step just taken admitted a request only while fewer than n sessions
\* had been created or were about to be.
Admits(n) ==
    resp'.op = "connect.verified"
        => nextSid + Cardinality({q \in Procs : conn[q].pc = "createUser"}) <= n

\* The catch block of the handler: 500, whatever had been done stays done.
ConnectFail(p) ==
    /\ conn' = [conn EXCEPT ![p] = Idle]
    /\ resp' = [op |-> "connect", walletAddress |-> conn[p].walletAddress,
                signature |-> conn[p].signature, message |-> conn[p].message,
                code |-> "INTERNAL_ERROR", storage |-> TRUE,
                receivedAt |-> conn[p].receivedAt, before |-> conn[p].before]

\* Lines 57-76: the upsert, then both tokens are signed, the session id is
\* generated and its expiry computed; the request waits on db.createSession.
ConnectCreateUser(p, dbUp) ==
    /\ conn[p].pc = "createUser"
    /\ IF ~dbUp
       THEN /\ ConnectFail(p)
            /\ UNCHANGED <<users, userSeq, nextSid>>
       ELSE LET r == conn[p]
                table == createUser(users, r.walletAddress, r.username, r.email)
                user == table[r.walletAddress]
                accessToken == jwtSign([userId |-> user.id,
                                        walletAddress |-> user.wallet_address,
                                        username |-> user.username], AccessTtl)
                refreshToken == jwtSign([userId |-> user.id,
                                         walletAddress |-> user.wallet_address],
                                        RefreshTtl)
            IN /\ users' = table
               /\ userSeq' = userSeq + 1
               /\ nextSid' = nextSid + 1
               /\ conn' = [conn EXCEPT ![p] =
                    [pc |-> "createSession", walletAddress |-> r.walletAddress,
                     signature |-> r.signature, message |-> r.message,
                     receivedAt |-> r.receivedAt, before |-> r.before,
                     user |-> user,
                     accessToken |-> accessToken, refreshToken |-> refreshToken,
                     sessionId |-> nextSid, expiresAt |-> now + SessionTtlMs]]
               /\ resp' = [op |-> "connect.createUser", p |-> p,
                           walletAddress |-> r.walletAddress,
                           username |-> r.username, email |-> r.email]
    /\ UNCHANGED <<server, rateLimit, limiter, now, sessions, nonceCache, sessionCache, nextNonce,
                   issued, minted>>

\* The cache entry written first, the row after it.
ConnectCreateSessionCacheFirst(p, dbUp) ==
    /\ conn[p].pc = "createSession"
    /\ LET r == conn[p]
       IN /\ sessionCache' = RedisSet(sessionCache, r.sessionId,
                                [userId |-> r.user.id,
                                 walletAddress |-> r.user.wallet_address,
                                 username |-> r.user.username],
                                SessionTtl, TRUE)
          /\ IF ~dbUp
             THEN /\ ConnectFail(p)
                  /\ UNCHANGED sessions
             ELSE /\ sessions' = [sessions EXCEPT ![r.sessionId] =
                                    [user_id |-> r.user.id,
                                     wallet_address |-> r.user.wallet_address,
                                     expires_at |-> r.expiresAt]]
                  /\ conn' = [conn EXCEPT ![p].pc = "cacheSession"]
                  /\ resp' = [op |-> "connect.createSession", p |-> p]
    /\ UNCHANGED <<server, rateLimit, limiter, now, users, userSeq, nonceCache,
                   nextNonce, nextSid, issued, minted>>

\* Line 78: the durable session row; the request waits on the cache write.
ConnectCreateSession(p, dbUp) ==
    /\ conn[p].pc = "createSession"
    /\ IF ~dbUp
       THEN /\ ConnectFail(p)
            /\ UNCHANGED sessions
       ELSE LET r == conn[p]
            IN /\ sessions' = createSession(sessions, r.sessionId, r.user.id,
                                            r.user.wallet_address, r.expiresAt)
               /\ conn' = [conn EXCEPT ![p].pc = "cacheSession"]
               /\ resp' = [op |-> "connect.createSession", p |-> p]
    /\ UNCHANGED <<server, rateLimit, limiter, now, users, userSeq, nonceCache, sessionCache,
                   nextNonce, nextSid, issued, minted>>

\* RedisService.cacheUserSession: setJSON under session:<sessionId>.
cacheUserSession(cache, sessionId, userData, ttl, redisUp) ==
    RedisSet(cache, sessionId, userData, ttl, redisUp)

\* The handler failing with 500 when the cache write did not succeed.
ConnectCacheSessionFatal(p, redisUp) ==
    /\ conn[p].pc = "cacheSession"
    /\ IF redisUp
       THEN LET r == conn[p]
            IN /\ sessionCache' = cacheUserSession(sessionCache, r.sessionId,
                                     [userId |-> r.user.id,
                                      walletAddress |-> r.user.wallet_address,
                                      username |-> r.user.username],
                                     SessionTtl, redisUp)
               /\ minted' = minted \cup {[as |-> "access", token |-> r.accessToken],
                                         [as |-> "refresh", token |-> r.refreshToken]}
               /\ resp' = [op |-> "connect", walletAddress |-> r.walletAddress,
                           signature |-> r.signature, message |-> r.message,
                           code |-> "OK", storage |-> FALSE, user |-> r.user,
                           accessToken |-> r.accessToken,
                           refreshToken |-> r.refreshToken,
                           sessionId |-> r.sessionId, receivedAt |-> r.receivedAt]
               /\ conn' = [conn EXCEPT ![p] = Idle]
       ELSE /\ ConnectFail(p)
            /\ UNCHANGED <<sessionCache, minted>>
    /\ UNCHANGED <<server, rateLimit, limiter, now, users, userSeq, sessions, nonceCache, nextNonce,
                   nextSid, issued>>

\* Lines 79-105: the cache entry, then the success response.
ConnectCacheSession(p, redisUp) ==
    /\ conn[p].pc = "cacheSession"
    /\ LET r == conn[p]
       IN /\ sessionCache' = cacheUserSession(sessionCache, r.sessionId,
                                [userId |-> r.user.id,
                                 walletAddress |-> r.user.wallet_address,
                                 username |-> r.user.username],
                                SessionTtl, redisUp)
          /\ minted' = minted \cup {[as |-> "access", token |-> r.accessToken],
                                    [as |-> "refresh", token |-> r.refreshToken]}
          /\ resp' = [op |-> "connect", walletAddress |-> r.walletAddress,
                      signature |-> r.signature, message |-> r.message,
                      code |-> "OK", storage |-> FALSE, user |-> r.user,
                      accessToken |-> r.accessToken,
                      refreshToken |-> r.refreshToken,
                      sessionId |-> r.sessionId, receivedAt |-> r.receivedAt]
          /\ conn' = [conn EXCEPT ![p] = Idle]
    /\ UNCHANGED <<server, rateLimit, limiter, now, users, userSeq, sessions, nonceCache, nextNonce,
                   nextSid, issued>>

\* ---------------------------------------------------------------- the clock

InFlight == \E p \in Procs : conn[p].pc # "idle"

\* Time passes by d ms; Redis drops the keys whose ttl has run out. A request
\* in flight is answered long before five minutes have passed.
Tick(d) ==
    /\ InFlight => d < fiveMinutes
    /\ now' = now + d
    /\ nonceCache' = Evict(nonceCache, now + d)
    /\ sessionCache' = Evict(sessionCache, now + d)
    /\ rateLimit' = IF /\ rateLimit # NoEntry
                        /\ rateLimit.expireAt # NoExpiry
                        /\ rateLimit.expireAt <= now + d
                     THEN NoEntry ELSE rateLimit
    /\ resp' = [op |-> "tick"]
    /\ UNCHANGED <<server, limiter, users, userSeq, sessions, conn, nextNonce,
                   nextSid, issued, minted>>

\* ----------------------------------------------------------- POST /refresh

\* Lines 116-161: verify the token, look the user up by the wallet address
\* it carries, sign a new access token. TokenExpiredError is a
\* JsonWebTokenError, so both take the 401 branch.
Refresh(refreshToken, dbUp) ==
    /\ LET verified == jwtVerify(refreshToken)
       IN IF "error" \in DOMAIN verified
          THEN /\ resp' = [op |-> "refresh", token |-> refreshToken,
                           code |-> "INVALID_REFRESH_TOKEN", error |-> verified.error]
               /\ UNCHANGED minted
          ELSE IF ~dbUp
          THEN /\ resp' = [op |-> "refresh", token |-> refreshToken,
                           code |-> "INTERNAL_ERROR"]
               /\ UNCHANGED minted
          ELSE LET user == getUserByWallet(verified.decoded.walletAddress)
                   newAccessToken ==
                        jwtSign([userId |-> user.id,
                                 walletAddress |-> user.wallet_address,
                                 username |-> user.username], AccessTtl)
               IN IF user = NoRow
                  THEN /\ resp' = [op |-> "refresh", token |-> refreshToken,
                                   code |-> "USER_NOT_FOUND"]
                       /\ UNCHANGED minted
                  ELSE /\ resp' = [op |-> "refresh", token |-> refreshToken,
                                   code |-> "OK", accessToken |-> newAccessToken]
                       /\ minted' = minted \cup
                                {[as |-> "renewed", token |-> newAccessToken]}
    /\ UNCHANGED <<server, rateLimit, limiter, now, users, userSeq, sessions, nonceCache, sessionCache,
                   conn, nextNonce, nextSid, issued>>

\* ------------------------------------------- GET /profile, PUT /preferences

\* A request without an Authorization header.
NoToken == [payload |-> Null, iat |-> 0, exp |-> 0, none |-> TRUE]

\* Preference documents a client sends.
Prefs == {"dark"}

\* An update that inserts the row when the address has none.
updateUserPreferencesUpsert(table, walletAddress, preferences) ==
    IF walletAddress \in DOMAIN table /\ table[walletAddress] # NoRow
    THEN [table EXCEPT ![walletAddress].preferences = preferences]
    ELSE [table EXCEPT ![walletAddress] =
            [id |-> userSeq, wallet_address |-> walletAddress,
             username |-> Null, email |-> Null, preferences |-> preferences]]

\* DatabaseService.updateUserPreferences: UPDATE ... WHERE wallet_address.
updateUserPreferences(table, walletAddress, preferences) ==
    IF walletAddress \in DOMAIN table /\ table[walletAddress] # NoRow
    THEN [table EXCEPT ![walletAddress].preferences = preferences]
    ELSE table

\* Lines 188-235: verify the bearer token, look the user up by the wallet
\* address it carries, return the user.
Profile(token, dbUp) ==
    /\ IF token = NoToken
       THEN resp' = [op |-> "profile", token |-> token, code |-> "NO_TOKEN"]
       ELSE LET verified == jwtVerify(token)
            IN IF "error" \in DOMAIN verified
               THEN resp' = [op |-> "profile", token |-> token,
                             code |-> "INVALID_TOKEN", error |-> verified.error]
               ELSE IF ~dbUp
               THEN resp' = [op |-> "profile", token |-> token,
                             code |-> "INTERNAL_ERROR"]
               ELSE LET user == getUserByWallet(verified.decoded.walletAddress)
                    IN IF user = NoRow
                       THEN resp' = [op |-> "profile", token |-> token,
                                     code |-> "USER_NOT_FOUND"]
                       ELSE resp' = [op |-> "profile", token |-> token,
                                     code |-> "OK", user |-> user]
    /\ UNCHANGED <<server, rateLimit, limiter, now, users, userSeq, sessions, nonceCache, sessionCache,
                   conn, nextNonce, nextSid, issued, minted>>

\* Lines 238-279: verify the bearer token, update the preferences of the
\* user with the wallet address it carries, return them.
Preferences(token, preferences, dbUp) ==
    /\ IF token = NoToken
       THEN /\ resp' = [op |-> "preferences", token |-> token, code |-> "NO_TOKEN"]
            /\ UNCHANGED users
       ELSE LET verified == jwtVerify(token)
            IN IF "error" \in DOMAIN verified
               THEN /\ resp' = [op |-> "preferences", token |-> token,
                                code |-> "INVALID_TOKEN", error |-> verified.error]
                    /\ UNCHANGED users
               ELSE IF ~dbUp
               THEN /\ resp' = [op |-> "preferences", token |-> token,
                                code |-> "INTERNAL_ERROR"]
                    /\ UNCHANGED users
               ELSE LET walletAddress == verified.decoded.walletAddress
                        table == updateUserPreferences(users, walletAddress,
                                                       preferences)
                        updatedUser == table[walletAddress]
                    IN /\ users' = table
                       /\ IF updatedUser = NoRow
                          THEN resp' = [op |-> "preferences", token |-> token,
                                        code |-> "USER_NOT_FOUND"]
                          ELSE resp' = [op |-> "preferences", token |-> token,
                                        code |-> "OK",
                                        preferences |-> updatedUser.preferences]
    /\ UNCHANGED <<server, rateLimit, limiter, now, userSeq, sessions, nonceCache, sessionCache,
                   conn, nextNonce, nextSid, issued, minted>>

\* -------------------------------------------------------- POST /disconnect

\* A request without the x-session-id header.
NoHeader == -1

\* RedisService.invalidateUserSession: del of session:<sessionId>.
invalidateUserSession(cache, sessionId, redisUp) ==
    IF sessionId \in DOMAIN cache THEN RedisDel(cache, sessionId, redisUp) ELSE cache

\* Lines 164-185: with a session id, delete the row, then the cache entry;
\* success unless the database call threw.
Disconnect(sessionId, dbUp, redisUp) ==
    /\ IF sessionId = NoHeader
       THEN /\ resp' = [op |-> "disconnect", sessionId |-> sessionId, code |-> "OK"]
            /\ UNCHANGED <<sessions, sessionCache>>
       ELSE IF ~dbUp
       THEN /\ resp' = [op |-> "disconnect", sessionId |-> sessionId,
                        code |-> "INTERNAL_ERROR"]
            /\ UNCHANGED <<sessions, sessionCache>>
       ELSE /\ sessions' = deleteSession(sessions, sessionId)
            /\ sessionCache' = invalidateUserSession(sessionCache, sessionId, redisUp)
            /\ resp' = [op |-> "disconnect", sessionId |-> sessionId, code |-> "OK"]
    /\ UNCHANGED <<server, rateLimit, limiter, now, users, userSeq, nonceCache, conn, nextNonce, nextSid,
                   issued, minted>>

\* ------------------------------------------------- the database's operator

\* A user row deleted by hand; api_sessions.user_id is declared ON DELETE
\* CASCADE, so the user's sessions go with it.
AdminDeleteUser(walletAddress) ==
    /\ ~InFlight
    /\ users[walletAddress] # NoRow
    /\ users' = [users EXCEPT ![walletAddress] = NoRow]
    /\ sessions' = [s \in DOMAIN sessions |->
                        IF /\ sessions[s] # NoRow
                           /\ sessions[s].user_id = users[walletAddress].id
                        THEN NoRow ELSE sessions[s]]
    /\ resp' = [op |-> "deleteUser", walletAddress |-> walletAddress]
    /\ UNCHANGED <<server, rateLimit, limiter, now, userSeq, nonceCache,
                   sessionCache, conn, nextNonce, nextSid, issued, minted>>

\* ------------------------------------------------------------ session reads

\* RedisService.getCachedUserSession: a point read of session:<sessionId>.
getCachedUserSession(sessionId, redisUp) ==
    IF sessionId \in DOMAIN sessionCache
    THEN RedisGet(sessionCache, sessionId, redisUp)
    ELSE NoEntry

\* A caller reads the cache.
ReadCachedSession(sessionId, redisUp) ==
    /\ resp' = [op |-> "getCachedUserSession", sessionId |-> sessionId,
                result |-> getCachedUserSession(sessionId, redisUp)]
    /\ UNCHANGED <<server, rateLimit, limiter, now, users, userSeq, sessions, nonceCache, sessionCache,
                   conn, nextNonce, nextSid, issued, minted>>

\* A caller queries the durable store.
ReadSession(sessionId) ==
    /\ resp' = [op |-> "getSession", sessionId |-> sessionId,
                result |-> getSession(sessionId)]
    /\ UNCHANGED <<server, rateLimit, limiter, now, users, userSeq, sessions, nonceCache, sessionCache,
                   conn, nextNonce, nextSid, issued, minted>>

\* ---------------------------------------------------------------- startServer

\* The instance of RedisService the auth router's cache calls run on.
AuthRedis == "auth.redis"

\* One awaited initialize() of startServer: on success the next position,
\* on a throw the catch block's process.exit(1).
Initialize(instance, from, to, ok) ==
    /\ server.pc = from
    /\ server' = IF ok
                 THEN [pc |-> to, initialized |-> server.initialized \cup {instance}]
                 ELSE [pc |-> "exited", initialized |-> server.initialized]
    /\ resp' = [op |-> "startServer", instance |-> instance, ok |-> ok]
    /\ UNCHANGED <<rateLimit, limiter, now, users, userSeq, sessions, nonceCache,
                   sessionCache, conn, nextNonce, nextSid, issued, minted>>

InitializeDb(ok) == Initialize("server.db", "start", "db", ok)

InitializeRedis(ok) == Initialize("server.redis", "db", "redis", ok)

InitializeArweave(ok) == Initialize("server.arweave", "redis", "arweave", ok)

\* cronService.start() and server.listen(PORT).
Listen ==
    /\ server.pc = "arweave"
    /\ server' = [server EXCEPT !.pc = "listening"]
    /\ resp' = [op |-> "listen"]
    /\ UNCHANGED <<rateLimit, limiter, now, users, userSeq, sessions, nonceCache,
                   sessionCache, conn, nextNonce, nextSid, issued, minted>>

\* ------------------------------------------------------- incrementRateLimit

\* Lines 568-569: INCR; a first hit goes on to set the expiry, any other
\* returns its count. A throw is caught and 0 returned.
RateIncr(p, up) ==
    /\ limiter[p].pc = "idle"
    /\ IF ~up
       THEN /\ resp' = [op |-> "incrementRateLimit", p |-> p, result |-> 0]
            /\ UNCHANGED <<rateLimit, limiter>>
       ELSE LET current == IF rateLimit = NoEntry THEN 1 ELSE rateLimit.count + 1
            IN /\ rateLimit' = IF rateLimit = NoEntry
                               THEN [count |-> 1, expireAt |-> NoExpiry]
                               ELSE [rateLimit EXCEPT !.count = current]
               /\ IF current = 1
                  THEN /\ limiter' = [limiter EXCEPT ![p] =
                                        [pc |-> "expire", current |-> current]]
                       /\ resp' = [op |-> "incrementRateLimit.incr", p |-> p]
                  ELSE /\ resp' = [op |-> "incrementRateLimit", p |-> p,
                                   result |-> current]
                       /\ UNCHANGED limiter
    /\ UNCHANGED <<server, now, users, userSeq, sessions, nonceCache,
                   sessionCache, conn, nextNonce, nextSid, issued, minted>>

\* Lines 570-572: EXPIRE key window, then the count is returned. A throw is
\* caught and 0 returned; the key stays as INCR left it.
RateExpire(p, up) ==
    /\ limiter[p].pc = "expire"
    /\ IF ~up
       THEN /\ resp' = [op |-> "incrementRateLimit", p |-> p, result |-> 0]
            /\ UNCHANGED rateLimit
       ELSE /\ rateLimit' = IF rateLimit = NoEntry THEN rateLimit
                            ELSE [rateLimit EXCEPT !.expireAt = now + Window * 1000]
            /\ resp' = [op |-> "incrementRateLimit", p |-> p,
                        result |-> limiter[p].current]
    /\ limiter' = [limiter EXCEPT ![p] = Idle]
    /\ UNCHANGED <<server, now, users, userSeq, sessions, nonceCache,
                   sessionCache, conn, nextNonce, nextSid, issued, minted>>

\* ------------------------------------------------------------ client inputs

\* Messages a client can sign and submit: any challenge the server returned,
\* or a text of its own with the timestamp line it likes.
OwnMessages(timestamps) == { ChallengeMessage("0xAb", 0, t) : t \in timestamps }

\* The signature wallet w makes over the message it is submitted with.
SignedBy(w) == [signer |-> w, over |-> "this"]

\* Signatures a client can submit with a message.
ClientSignatures == { SignedBy(w) : w \in Wallets } \cup {Malformed}

\* The addresses the requests of a run name.
ClientAddrs == {"0xAb", "0xcd"}

\* Session ids a connect has returned to its client.
ReturnedSids ==
    { s \in Sids : /\ s < nextSid
                   /\ \A p \in Procs : "sessionId" \in DOMAIN conn[p]
                                            => conn[p].sessionId # s }

\* Tokens clients hold.
HeldTokens == { t.token : t \in minted }

\* The instants the clock is read at: a start, five minutes later, and the
\* millisecond after each.
Instants ==
    {StartTime, StartTime + 1, StartTime + fiveMinutes, StartTime + fiveMinutes + 1}

\* The challenge and connect flow, over the five minutes a challenge lives.
Next ==
    \/ \E a \in ClientAddrs \cup {BadAddr} :
            nextNonce <= MaxNonces /\ Nonce(a, TRUE)
    \/ \E a \in ClientAddrs, sig \in ClientSignatures,
          m \in issued \cup OwnMessages({NoTimestamp}) :
            ConnectVerify(1, a, sig, m, Null, Null) /\ Admits(MaxSessions)
    \/ \E up \in BOOLEAN : ConnectCreateUser(1, up)
    \/ \E up \in BOOLEAN : ConnectCreateSession(1, up)
    \/ \E up \in BOOLEAN : ConnectCacheSession(1, up)
    \/ \E t \in Instants : t > now /\ Tick(t - now)

Spec == Init /\ [][Next]_vars

\* One wallet connecting with a message of its own, stamped now.
ConnectOwn ==
    ConnectVerify(1, "0xAb", SignedBy("0xab"), ChallengeMessage("0xAb", 0, now),
                  Null, Null)

\* The instants a token or a session lives to: its start, the access token's
\* hour, the seven days of the refresh token and the session, two
\* milliseconds after the start and one after the seven days.
LongInstants ==
    {StartTime, StartTime + 2, StartTime + AccessTtl * 1000,
     StartTime + SessionTtlMs, StartTime + SessionTtlMs + 1}

\* Sessions from creation to expiry: connect, the two reads, disconnect.
NextSession ==
    \/ ConnectOwn /\ Admits(MaxSessions)
    \/ ConnectCreateUser(1, TRUE)
    \/ ConnectCreateSession(1, TRUE)
    \/ \E up \in BOOLEAN : ConnectCacheSession(1, up)
    \/ \E s \in ReturnedSids \cup {UnknownSid, NoHeader}, db \in BOOLEAN, up \in BOOLEAN :
            Disconnect(s, db, up)
    \/ \E s \in ReturnedSids \cup {UnknownSid}, up \in BOOLEAN : ReadCachedSession(s, up)
    \/ \E s \in ReturnedSids \cup {UnknownSid} : ReadSession(s)
    \/ \E t \in LongInstants \ {StartTime + AccessTtl * 1000} : t > now /\ Tick(t - now)

SpecSession == Init /\ [][NextSession]_vars

\* Tokens from minting to expiry: connect, then any held token presented at
\* refresh, profile and preferences, before and after a disconnect.
NextToken ==
    \/ ConnectOwn /\ Admits(MaxSessions)
    \/ ConnectCreateUser(1, TRUE)
    \/ ConnectCreateSession(1, TRUE)
    \/ ConnectCacheSession(1, TRUE)
    \/ \E t \in HeldTokens \cup {BadToken}, db \in BOOLEAN : Refresh(t, db)
    \/ \E t \in HeldTokens \cup {BadToken, NoToken}, db \in BOOLEAN : Profile(t, db)
    \/ \E t \in HeldTokens \cup {BadToken, NoToken}, pr \in Prefs, db \in BOOLEAN :
            Preferences(t, pr, db)
    \/ \E s \in ReturnedSids : Disconnect(s, TRUE, TRUE)
    \/ \E t \in LongInstants : t > now /\ Tick(t - now)

SpecToken == Init /\ [][NextToken]_vars

\* Challenges against connects: a second challenge for the same address, and
\* messages the server never issued, stamped now or past five minutes ahead.
NextChallenge ==
    \/ \E a \in ClientAddrs \cup {BadAddr}, up \in BOOLEAN :
            nextNonce <= MaxNonces + 1 /\ Nonce(a, up)
    \/ \E a \in ClientAddrs,
          m \in issued \cup OwnMessages({now, now + fiveMinutes + 1}) :
            ConnectVerify(1, a, SignedBy(toLowerCase(a)), m, Null, Null)
                /\ Admits(MaxSessions)
    \/ ConnectCreateUser(1, TRUE)
    \/ ConnectCreateSession(1, TRUE)
    \/ ConnectCacheSession(1, TRUE)
    \/ \E t \in {StartTime + 1} : t > now /\ Tick(t - now)

SpecChallenge == Init /\ [][NextChallenge]_vars

\* One issued challenge, submitted as often as the client likes while it is
\* fresh and after.
NextReplay ==
    \/ nextNonce <= MaxNonces /\ Nonce("0xAb", TRUE)
    \/ \E m \in issued :
            ConnectVerify(1, "0xAb", SignedBy("0xab"), m, Null, Null)
                /\ Admits(MaxSessions + 1)
    \/ ConnectCreateUser(1, TRUE)
    \/ ConnectCreateSession(1, TRUE)
    \/ \E up \in BOOLEAN : ConnectCacheSession(1, up)
    \/ \E t \in Instants : t > now /\ Tick(t - now)

SpecReplay == Init /\ [][NextReplay]_vars

\* What a connect says of its user: nothing, a username, or an email.
Profiles == {<<Null, Null>>} \cup { <<u, Null>> : u \in Usernames }
                \cup { <<Null, e>> : e \in Emails }

\* One wallet connecting under two spellings of its address, two requests
\* at a time, each with a message of its own stamped now; the challenges
\* are requested before the first connect.
NextIdentity ==
    \/ \E a \in {"0xAb", "0xab"} :
            nextNonce <= MaxNonces + 1 /\ nextSid = 1 /\ ~InFlight /\ Nonce(a, TRUE)
    \/ \E p \in Procs, a \in {"0xAb", "0xab"}, pr \in Profiles :
            ConnectVerify(p, a, SignedBy("0xab"), ChallengeMessage(a, 0, now),
                          pr[1], pr[2])
                /\ Admits(MaxSessions + 1)
    \/ \E p \in Procs : ConnectCreateUser(p, TRUE)
    \/ \E p \in Procs : ConnectCreateSession(p, TRUE)
    \/ \E p \in Procs : ConnectCacheSession(p, TRUE)

SpecIdentity == Init /\ [][NextIdentity]_vars

\* Tokens that outlive their user: connect, the user row deleted by hand,
\* then the tokens presented.
NextOrphan ==
    \/ ConnectOwn /\ Admits(MaxSessions)
    \/ ConnectCreateUser(1, TRUE)
    \/ ConnectCreateSession(1, TRUE)
    \/ ConnectCacheSession(1, TRUE)
    \/ \E a \in Addrs : AdminDeleteUser(a)
    \/ \E t \in HeldTokens, db \in BOOLEAN : Refresh(t, db)
    \/ \E t \in HeldTokens, db \in BOOLEAN : Profile(t, db)
    \/ \E t \in HeldTokens, pr \in Prefs, db \in BOOLEAN : Preferences(t, pr, db)
    \/ \E t \in {StartTime + 2, StartTime + AccessTtl * 1000} :
            t > now /\ Tick(t - now)

SpecOrphan == Init /\ [][NextOrphan]_vars

\* The process from its start: startServer, then requests once it listens.
NextBoot ==
    \/ \E ok \in BOOLEAN : InitializeDb(ok)
    \/ \E ok \in BOOLEAN : InitializeRedis(ok)
    \/ \E ok \in BOOLEAN : InitializeArweave(ok)
    \/ Listen
    \/ \E a \in ClientAddrs, up \in BOOLEAN :
            server.pc = "listening" /\ nextNonce <= MaxNonces /\ Nonce(a, up)
    \/ server.pc = "listening" /\ ConnectOwn /\ Admits(MaxSessions)
    \/ server.pc = "listening" /\ ConnectCreateUser(1, TRUE)
    \/ server.pc = "listening" /\ ConnectCreateSession(1, TRUE)
    \/ \E up \in BOOLEAN : server.pc = "listening" /\ ConnectCacheSession(1, up)
    \/ \E s \in ReturnedSids \cup {NoHeader}, up \in BOOLEAN :
            server.pc = "listening" /\ Disconnect(s, TRUE, up)
    \/ \E t \in Instants : server.pc = "listening" /\ t > now /\ Tick(t - now)

SpecBoot == InitBoot /\ [][NextBoot]_vars

\* The instants a rate-limit window is seen at: its start, its end, and the
\* millisecond after each.
WindowInstants ==
    {StartTime, StartTime + 1, StartTime + Window * 1000,
     StartTime + Window * 1000 + 1}

\* Concurrent hits on one rate-limit key, any Redis command failing.
NextRate ==
    \/ \E p \in Procs, up \in BOOLEAN :
            /\ IF rateLimit = NoEntry THEN TRUE ELSE rateLimit.count < MaxHits
            /\ RateIncr(p, up)
    \/ \E p \in Procs, up \in BOOLEAN : RateExpire(p, up)
    \/ \E t \in WindowInstants : t > now /\ Tick(t - now)

SpecRate == Init /\ [][NextRate]_vars

\* ------------------------------------------------------------------ claims

\* The connect responses: a verdict of the checks, or the end of the handler.
IsConnect(r) == r.op = "connect"

\* The request was signed by the key of the address it claims.
SignedByClaimed(r) == r.signature = SignedBy(toLowerCase(r.walletAddress))

\* C1: a connect that submits a challenge the server issued for address A,
\* signed by A's key, while the challenge is fresh (at once, or up to five
\* minutes later) is not rejected: it returns a session id whose durable
\* row is unexpired, an access token and a refresh token. The only other
\* outcome is the 500 of a database call that failed.
C1_ChallengeThenConnect ==
    ( /\ IsConnect(resp)
      /\ resp.message \in issued
      /\ resp.message.wallet = resp.walletAddress
      /\ SignedByClaimed(resp)
      /\ resp.receivedAt - resp.message.timestamp <= fiveMinutes )
    => \/ /\ resp.code = "OK"
          /\ resp.sessionId \in Sids
          /\ sessions[resp.sessionId] # NoRow
          /\ sessions[resp.sessionId].expires_at > now
          /\ getSession(resp.sessionId) # NoRow
          /\ [as |-> "access", token |-> resp.accessToken] \in minted
          /\ [as |-> "refresh", token |-> resp.refreshToken] \in minted
          /\ "decoded" \in DOMAIN jwtVerify(resp.accessToken)
          /\ "decoded" \in DOMAIN jwtVerify(resp.refreshToken)
       \/ /\ resp.code = "INTERNAL_ERROR"
          /\ resp.storage

\* C1's case: the challenge was submitted the instant it was issued, and
\* the connect succeeded.
C1_Witness ==
    /\ IsConnect(resp)
    /\ resp.code = "OK"
    /\ resp.message \in issued
    /\ resp.message.wallet = resp.walletAddress
    /\ SignedByClaimed(resp)
    /\ resp.receivedAt = resp.message.timestamp
    /\ sessions[resp.sessionId].expires_at > now

\* The request carries a well-formed signature made by another wallet's key.
WrongSigner(r) ==
    /\ r.signature # Malformed
    /\ r.signature.over = "this"
    /\ r.signature.signer # toLowerCase(r.walletAddress)

\* C2: a connect claiming address A with a signature made by another
\* address's key is answered INVALID_SIGNATURE, and the step that answers
\* it writes no identity, no session, no cache entry and hands out no token.
C2_WrongSignerRejected ==
    [][ (IsConnect(resp') /\ WrongSigner(resp'))
            => /\ resp'.code = "INVALID_SIGNATURE"
               /\ UNCHANGED <<users, sessions, sessionCache, minted, conn, nextSid>>
      ]_vars

\* C2's case: a challenge issued for A came back signed by another key.
C2_Witness ==
    /\ IsConnect(resp)
    /\ WrongSigner(resp)
    /\ resp.message \in issued
    /\ resp.message.wallet = resp.walletAddress
    /\ resp.code = "INVALID_SIGNATURE"

\* The message is more than five minutes old, or carries no timestamp.
Stale(r) ==
    \/ r.message.timestamp = NoTimestamp
    \/ r.receivedAt - r.message.timestamp > fiveMinutes

\* C3: a connect whose message is more than five minutes old at
\* verification, or has no parseable timestamp, is answered MESSAGE_EXPIRED
\* even though the signature is the claimed address's own.
C3_StaleMessageRejected ==
    (IsConnect(resp) /\ SignedByClaimed(resp) /\ Stale(resp))
        => resp.code = "MESSAGE_EXPIRED"

\* C3's case: an issued challenge, correctly signed, submitted too late.
C3_Witness ==
    /\ IsConnect(resp)
    /\ SignedByClaimed(resp)
    /\ resp.message \in issued
    /\ resp.receivedAt - resp.message.timestamp = fiveMinutes + 1
    /\ resp.code = "MESSAGE_EXPIRED"

\* C4: refresh answers an access token, and an expired refresh token, with
\* the invalid-token error, and mints nothing for them.
C4_RefreshRejectsWrongKind ==
    ( /\ resp.op = "refresh"
      /\ \/ [as |-> "access", token |-> resp.token] \in minted
         \/ /\ [as |-> "refresh", token |-> resp.token] \in minted
            /\ now \div 1000 >= resp.token.exp )
    => resp.code = "INVALID_REFRESH_TOKEN"

\* C5: a session is issued only for a message the server issued as a
\* challenge for the claimed address.
C5_SessionOnlyAfterChallenge ==
    (IsConnect(resp) /\ resp.code = "OK")
        => /\ resp.message \in issued
           /\ resp.message.wallet = resp.walletAddress

\* C6: once a newer challenge is cached for an address, a connect
\* submitting the message of the earlier one is not accepted: a message that
\* passes verification carries the nonce the cache holds for its address.
C6_OldNonceUnusable ==
    ( /\ resp.op = "connect.verified"
      /\ conn[1].message \in issued
      /\ nonceCache[conn[1].walletAddress] # NoEntry )
    => nonceCache[conn[1].walletAddress].value = conn[1].message.nonce

\* C7: a disconnect that directly follows a successful disconnect of the
\* same session id succeeds and leaves both stores as they were.
C7_DisconnectTwice ==
    [][ ( /\ resp.op = "disconnect" /\ resp.code = "OK"
          /\ resp'.op = "disconnect" /\ resp'.code = "OK"
          /\ resp'.sessionId = resp.sessionId )
            => UNCHANGED <<sessions, sessionCache>>
      ]_vars

\* C8: after a disconnect has answered success the session is in neither
\* store.
C8_DisconnectedIsAbsent ==
    (resp.op = "disconnect" /\ resp.code = "OK" /\ resp.sessionId \in Sids)
        => /\ getSession(resp.sessionId) = NoRow
           /\ getCachedUserSession(resp.sessionId, TRUE) = NoEntry

\* C9: a session the durable store returns is in the cache once the lookup
\* is over: the fallback wrote it back.
C9_FallbackRepopulates ==
    (resp.op = "getSession" /\ resp.result # NoRow)
        => getCachedUserSession(resp.sessionId, TRUE) # NoEntry

\* C10: a read that returns a session returns one whose recorded expiry is
\* still ahead, whether the row or the cache entry answered.
C10_NoExpiredSessionRead ==
    /\ (resp.op = "getSession" /\ resp.result # NoRow)
            => resp.result.expires_at >= now
    /\ ( /\ resp.op = "getCachedUserSession"
         /\ resp.result # NoEntry
         /\ sessions[resp.sessionId] # NoRow )
            => sessions[resp.sessionId].expires_at >= now

\* C11: refresh returns an access token only, and the tokens refresh accepts
\* grow through connect alone: every token a refresh accepts is one that a
\* connect returned, never one that only a refresh returned.
C11_RefreshMintsAccessOnly ==
    (resp.op = "refresh" /\ resp.code = "OK")
        => /\ DOMAIN resp = {"op", "token", "code", "accessToken"}
           /\ \E k \in {"access", "refresh"} :
                    [as |-> k, token |-> resp.token] \in minted

\* C12: a refresh token presented as the bearer token of profile or of
\* preferences is answered with the invalid-token error.
C12_RefreshTokenNotBearer ==
    ( /\ resp.op \in {"profile", "preferences"}
      /\ [as |-> "refresh", token |-> resp.token] \in minted )
    => resp.code = "INVALID_TOKEN"

\* C13: a refresh step leaves the session table and the session cache as
\* they were, and a refresh token a connect returned, presented before its
\* expiry, mints an access token whatever became of that connect's session
\* (the only other outcome is the 500 of a failed database call).
C13_RefreshIgnoresSessions ==
    [][ resp'.op = "refresh"
            => /\ UNCHANGED <<sessions, sessionCache>>
               /\ ( /\ [as |-> "refresh", token |-> resp'.token] \in minted
                    /\ now' \div 1000 < resp'.token.exp )
                  => \/ /\ resp'.code = "OK"
                        /\ [as |-> "renewed", token |-> resp'.accessToken] \in minted'
                        /\ "decoded" \in DOMAIN jwtVerify(resp'.accessToken)
                     \/ resp'.code = "INTERNAL_ERROR"
      ]_vars

\* C13's case: the session of the connect was disconnected, its row and its
\* cache entry are gone, and the connect's refresh token minted a token.
C13_Witness ==
    /\ resp.op = "refresh"
    /\ resp.code = "OK"
    /\ [as |-> "refresh", token |-> resp.token] \in minted
    /\ nextSid > 1
    /\ \A s \in Sids : sessions[s] = NoRow /\ sessionCache[s] = NoEntry

\* C14: no step of a connect touches the cached nonce, and a connect that
\* submits an issued challenge with its signature while the challenge is
\* fresh succeeds however often the pair was submitted before, each time
\* with a session id not returned before and a new session row.
C14_ConnectKeepsChallenge ==
    [][ resp'.op \in {"connect", "connect.verified", "connect.createUser",
                      "connect.createSession"}
            => /\ UNCHANGED nonceCache
               /\ ( /\ IsConnect(resp')
                    /\ resp'.message \in issued
                    /\ resp'.message.wallet = resp'.walletAddress
                    /\ SignedByClaimed(resp')
                    /\ resp'.receivedAt - resp'.message.timestamp <= fiveMinutes )
                  => /\ resp'.code = "OK"
                     /\ resp'.sessionId \in Sids \ ReturnedSids
                     /\ sessions'[resp'.sessionId] # NoRow
                     /\ resp'.sessionId \in ReturnedSids'
      ]_vars

\* C14's case: the one challenge issued has produced a second session, and
\* its nonce is still the one cached for the address.
C14_Witness ==
    /\ IsConnect(resp)
    /\ resp.code = "OK"
    /\ issued = {resp.message}
    /\ \E s \in Sids : s # resp.sessionId /\ sessions[s] # NoRow
    /\ sessions[resp.sessionId] # NoRow
    /\ nonceCache[resp.walletAddress] # NoEntry
    /\ nonceCache[resp.walletAddress].value = resp.message.nonce

\* C15: where token verification fails on an expired token the response
\* carries a code of its own, not the code a malformed or badly signed token
\* gets.
C15_ExpiredDistinctFromInvalid ==
    ( /\ resp.op \in {"refresh", "profile", "preferences"}
      /\ "error" \in DOMAIN resp
      /\ resp.error = "TokenExpiredError" )
    => resp.code \notin {"INVALID_REFRESH_TOKEN", "INVALID_TOKEN"}

\* C16: a connect whose signature cannot be parsed is answered with a code
\* that is neither the wrong-signer code nor the internal-error code.
C16_MalformedSignatureKind ==
    (IsConnect(resp) /\ resp.signature = Malformed)
        => resp.code \notin {"INVALID_SIGNATURE", "INTERNAL_ERROR"}

\* C17: a connect whose message is stamped more than five minutes ahead of
\* the server's clock is answered MESSAGE_EXPIRED.
C17_FutureMessageRejected ==
    (IsConnect(resp) /\ resp.message.timestamp - resp.receivedAt > fiveMinutes)
        => resp.code = "MESSAGE_EXPIRED"

\* C18: the nonce endpoint answers an address that fails the pattern with
\* INVALID_WALLET_ADDRESS and writes nothing; for an address that matches,
\* its one write puts the nonce it returns under that address's key,
\* expiring 300 seconds later, in place of whatever was there, and no other
\* key changes.
C18_NonceWrite ==
    [][ resp'.op = "nonce"
            => IF resp'.walletAddress \in ClientAddrs
               THEN /\ resp'.code = "OK"
                    /\ UNCHANGED sessionCache
                    /\ resp'.stored =>
                            nonceCache' =
                                [nonceCache EXCEPT ![resp'.walletAddress] =
                                    [value |-> resp'.nonce,
                                     expireAt |-> now' + 300000]]
                    /\ ~resp'.stored => UNCHANGED nonceCache
               ELSE /\ resp'.code = "INVALID_WALLET_ADDRESS"
                    /\ UNCHANGED <<nonceCache, sessionCache, issued, nextNonce>>
      ]_vars

\* C18's case: a second challenge for an address; the cache holds its nonce
\* and not the first one.
C18_Witness ==
    /\ resp.op = "nonce"
    /\ resp.code = "OK"
    /\ resp.stored
    /\ \E m \in issued : m.wallet = resp.walletAddress /\ m.nonce < resp.nonce
    /\ nonceCache[resp.walletAddress] =
            [value |-> resp.nonce, expireAt |-> now + 300000]

\* C19: a nonce response that reports success carries a nonce the cache
\* holds under the address.
C19_NonceStoredOrFails ==
    (resp.op = "nonce" /\ resp.code = "OK")
        => /\ nonceCache[resp.walletAddress] # NoEntry
           /\ nonceCache[resp.walletAddress].value = resp.nonce

\* C20: once the session row is written, the last step of connect answers
\* success with the session id and both tokens whether or not the cache
\* write succeeded, and the durable store returns the session.
C20_CacheFailureNonFatal ==
    [][ (conn[1].pc = "cacheSession" /\ IsConnect(resp'))
            => /\ resp'.code = "OK"
               /\ resp'.sessionId = conn[1].sessionId
               /\ sessions'[resp'.sessionId] # NoRow
               /\ sessions'[resp'.sessionId].expires_at > now'
               /\ [as |-> "access", token |-> resp'.accessToken] \in minted'
               /\ [as |-> "refresh", token |-> resp'.refreshToken] \in minted'
      ]_vars

\* C20's case: connect answered success, the cache has no entry for the
\* session, the durable store returns it.
C20_Witness ==
    /\ IsConnect(resp)
    /\ resp.code = "OK"
    /\ getCachedUserSession(resp.sessionId, TRUE) = NoEntry
    /\ getSession(resp.sessionId) # NoRow
    /\ getSession(resp.sessionId).wallet_address = resp.user.wallet_address

\* C21: the users table holds one row per address: once an address has a
\* row, every later connect, concurrent ones included, leaves it the row
\* with that id and that address; a row appears only through a connect's
\* upsert, and no two rows share an id.
C21_OneIdentityPerAddress ==
    [][ /\ \A a \in Addrs :
            /\ users[a] # NoRow
                    => /\ users'[a] # NoRow
                       /\ users'[a].id = users[a].id
                       /\ users'[a].wallet_address = a
            /\ (users[a] = NoRow /\ users'[a] # NoRow)
                    => /\ resp'.op = "connect.createUser"
                       /\ resp'.walletAddress = a
                       /\ users'[a].wallet_address = a
        /\ \A a, b \in Addrs :
            (a # b /\ users'[a] # NoRow /\ users'[b] # NoRow)
                => users'[a].id # users'[b].id
      ]_vars

\* C21's case: two connects for one address in flight together, both past
\* the upsert, both holding the same identity.
C21_Witness ==
    /\ conn[1].pc = "createSession"
    /\ conn[2].pc = "createSession"
    /\ conn[1].walletAddress = conn[2].walletAddress
    /\ conn[1].user.id = conn[2].user.id
    /\ users[conn[1].walletAddress].id = conn[1].user.id

\* C22: a connect's upsert on an address that has a row stores the username
\* and the email the request provides and keeps the stored ones where the
\* request omits them; id and preferences stay.
C22_UpsertCoalesces ==
    [][ (resp'.op = "connect.createUser" /\ users[resp'.walletAddress] # NoRow)
            => LET old == users[resp'.walletAddress]
                   new == users'[resp'.walletAddress]
               IN /\ new.username = IF resp'.username = Null
                                     THEN old.username ELSE resp'.username
                  /\ new.email = IF resp'.email = Null
                                  THEN old.email ELSE resp'.email
                  /\ new.id = old.id
                  /\ new.preferences = old.preferences
      ]_vars

\* C22's case: a connect that gave an email and no username, on a row that
\* had a username: the username is kept, the email stored.
C22_Witness ==
    /\ resp.op = "connect.createUser"
    /\ resp.username = Null
    /\ resp.email \in Emails
    /\ users[resp.walletAddress].username \in Usernames
    /\ users[resp.walletAddress].email = resp.email

\* C27: of two address strings that differ only in letter case, at most one
\* has a row in the users table and at most one has a nonce key.
C27_OneIdentityPerWallet ==
    \A a, b \in Addrs :
        (a # b /\ toLowerCase(a) = toLowerCase(b))
            => /\ ~(users[a] # NoRow /\ users[b] # NoRow)
               /\ ~(nonceCache[a] # NoEntry /\ nonceCache[b] # NoEntry)

\* C23: refresh, profile and preferences, given a token that verifies while
\* the address it carries has no row in the users table, answer
\* USER_NOT_FOUND (or the 500 of a failed database call); the step hands
\* out no token and leaves the users table as it was.
C23_UnknownIdentity ==
    [][ ( /\ resp'.op \in {"refresh", "profile", "preferences"}
          /\ resp'.token \in HeldTokens
          /\ now \div 1000 < resp'.token.exp
          /\ users[resp'.token.payload.walletAddress] = NoRow )
            => /\ resp'.code \in {"USER_NOT_FOUND", "INTERNAL_ERROR"}
               /\ UNCHANGED <<users, minted, sessions, sessionCache>>
      ]_vars

\* C23's case: preferences sent with a live access token whose user row is
\* gone; nothing was created.
C23_Witness ==
    /\ resp.op = "preferences"
    /\ resp.code = "USER_NOT_FOUND"
    /\ [as |-> "access", token |-> resp.token] \in minted
    /\ now \div 1000 < resp.token.exp
    /\ \A a \in Addrs : users[a] = NoRow

\* C24: an access token a connect returned, presented at profile, is
\* accepted with the claims it was minted with while its hour runs, and is
\* answered with the expired-token error once the hour is over.
C24_AccessTokenRoundTrip ==
    (resp.op = "profile" /\ [as |-> "access", token |-> resp.token] \in minted)
        => IF now \div 1000 < resp.token.exp
           THEN /\ resp.code \in {"OK", "INTERNAL_ERROR"}
                /\ jwtVerify(resp.token) = [decoded |-> resp.token.payload]
                /\ resp.code = "OK"
                        => /\ resp.token.payload.userId = resp.user.id
                           /\ resp.token.payload.walletAddress = resp.user.wallet_address
                           /\ resp.token.payload.username = resp.user.username
           ELSE resp.code = "TOKEN_EXPIRED"

\* C25: a step that puts a session into the cache finds its row already in
\* the session table, wherever a connect stops; and a connect that answers
\* success has its row written.
C25_DurableBeforeCache ==
    [][ /\ \A s \in Sids :
            (sessionCache[s] = NoEntry /\ sessionCache'[s] # NoEntry)
                => /\ sessions[s] # NoRow
                   /\ sessions'[s] = sessions[s]
        /\ \A s \in Sids : sessionCache'[s] # NoEntry => sessions'[s] # NoRow
        /\ (IsConnect(resp') /\ resp'.code = "OK")
                => sessions'[resp'.sessionId] # NoRow
      ]_vars

\* C25's case: a connect stopped between its two writes: the row is there,
\* the cache entry is not.
C25_Witness ==
    /\ conn[1].pc = "cacheSession"
    /\ sessions[conn[1].sessionId] # NoRow
    /\ sessionCache[conn[1].sessionId] = NoEntry

\* C26: a connect whose message is stale and whose signature is another
\* wallet's is answered MESSAGE_EXPIRED, the freshness check coming first.
C26_FreshnessBeforeSignature ==
    (IsConnect(resp) /\ WrongSigner(resp) /\ Stale(resp))
        => resp.code = "MESSAGE_EXPIRED"

\* C28: a connect that does not answer success leaves the users table, the
\* session table and the session cache as they were when it arrived.
C28_ConnectAllOrNothing ==
    (IsConnect(resp) /\ resp.code # "OK")
        => /\ users = resp.before.users
           /\ sessions = resp.before.sessions
           /\ sessionCache = resp.before.sessionCache

\* C29: a response of an auth route that issued a cache command comes from
\* a process whose startServer initialized the Redis instance the router
\* uses; the server listens only with its database, Redis and Arweave
\* services initialized, and an initialize() that fails ends the process.
C29_CacheClientInitialized ==
    /\ ( \/ resp.op = "nonce" /\ resp.code = "OK"
         \/ resp.op = "connect" /\ resp.code = "OK"
         \/ resp.op = "disconnect" /\ resp.code = "OK" /\ resp.sessionId # NoHeader )
            => AuthRedis \in server.initialized
    /\ server.pc = "listening" => ServerInstances \subseteq server.initialized
    /\ (resp.op = "startServer" /\ ~resp.ok) => server.pc = "exited"

\* C30: once no incrementRateLimit call is in flight, a rate-limit key that
\* counts at least 1 carries an expiry.
C30_CounterCarriesExpiry ==
    ( /\ rateLimit # NoEntry
      /\ rateLimit.count >= 1
      /\ \A p \in Procs : limiter[p].pc = "idle" )
    => rateLimit.expireAt # NoExpiry

====
